---- MODULE Spec2Model ----
(***************************************************************************)
(* Model of the repository's two stateful programs:                        *)
(*   - lecture_5/book_api/main.py : the book collection service (FastAPI   *)
(*     handlers over one SQLite table through SQLAlchemy);                 *)
(*   - lecture_3/grade.py         : the console student grade tracker.     *)
(* The service is modelled serving one request at a time: get_db up to its  *)
(* yield, the handler, get_db's finally.                                   *)
(* Text (str) is a sequence of one-character strings.  Optional[x] is a    *)
(* sequence of length 0 (None) or 1 (a value).                             *)
(***************************************************************************)
EXTENDS Integers, Sequences, FiniteSets, TLC

VARIABLES
    books,      \* rows of table "books" (a set of records, primary key id)
    issued,     \* history: ids returned by the successful creates so far
    order,      \* history: ids of the stored rows, in the order they were inserted
    pc,         \* position of the request being served: "idle", "yielded", "exit"
    session,    \* the request's SessionLocal(): "closed" or "open"
    resp,       \* the last request and its response
    students,   \* grade.py: the list `students`
    out,        \* grade.py: the lines the last menu choice printed
    running,    \* grade.py: the menu loop has not reached `break`
    choice      \* grade.py: the line last typed at "Enter your choice"

bookVars == <<books, issued, order, pc, session, resp>>
gradeVars == <<students, out, running, choice>>
vars == <<books, issued, order, pc, session, resp, students, out, running, choice>>

----------------------------------------------------------------------------
(* Bounds of the model *)

\* largest id the model lets the table hand out (create is disabled above it)
MaxId == 4
\* most grades one student holds in the model
MaxGrades == 2
\* most lines typed at the "Enter a grade" prompt before 'done'
MaxInputs == 1

----------------------------------------------------------------------------
(* Optional values and text *)

None == <<>>
Some(x) == <<x>>
IsNone(o) == o = <<>>
Val(o) == o[1]

Str1(a) == <<a>>
Str2(a, b) == <<a, b>>
EmptyStr == <<>>

Min2(a, b) == IF a <= b THEN a ELSE b

\* the set of the elements of a sequence
Range(s) == {s[i] : i \in 1..Len(s)}

----------------------------------------------------------------------------
(* BookCreate: the validated request body of POST and PUT *)

MinLength == 1
YearMin == 0
YearMax == 2100

YearInRange(y) == IsNone(y) \/ (Val(y) >= YearMin /\ Val(y) <= YearMax)

\* a BookCreate that lets an out-of-range year through
BookCreateNoYearBound(b) == Len(b.title) >= MinLength /\ Len(b.author) >= MinLength

\* a BookCreate that lets an empty title through
BookCreateNoTitleBound(b) == Len(b.author) >= MinLength /\ YearInRange(b.year)

\* pydantic accepts the body: title and author of min_length 1, year None or in [0, 2100]
BookCreate(b) ==
    /\ Len(b.title) >= MinLength
    /\ Len(b.author) >= MinLength
    /\ YearInRange(b.year)

\* the request bodies the model sends: three that validate, four that do not
Bodies ==
    { [title |-> Str2("W", "a"), author |-> Str2("X", "y"), year |-> None],
      [title |-> Str1("w"),      author |-> Str1("x"),      year |-> Some(2100)],
      [title |-> Str2("a", "_"), author |-> Str1("Y"),      year |-> Some(0)],
      [title |-> EmptyStr,       author |-> Str1("x"),      year |-> None],
      [title |-> Str1("w"),      author |-> EmptyStr,       year |-> None],
      [title |-> Str1("w"),      author |-> Str1("x"),      year |-> Some(2101)],
      [title |-> Str1("w"),      author |-> Str1("x"),      year |-> Some(-1)] }

\* the ids requests name: every id the table can hold, and one it never holds
BookIds == 1..(MaxId + 1)

----------------------------------------------------------------------------
(* BookDB: the table and its queries *)

Ids(rows) == {r.id : r \in rows}

MaxOf(S) == CHOOSE m \in S : \A x \in S : x <= m

\* id of a row inserted without one: INTEGER PRIMARY KEY (no AUTOINCREMENT) takes
\* one more than the largest id in the table, 1 in an empty table
NextRowid(rows) == IF rows = {} THEN 1 ELSE MaxOf(Ids(rows)) + 1

\* BookDB(**book.dict()) once committed and refreshed
BookDB(id, b) == [id |-> id, title |-> b.title, author |-> b.author, year |-> b.year]

\* db.query(BookDB).all(): the rows by ascending rowid
RECURSIVE AllRows(_)
AllRows(rows) ==
    IF rows = {} THEN <<>>
    ELSE LET first == CHOOSE r \in rows : \A q \in rows : r.id <= q.id
         IN <<first>> \o AllRows(rows \ {first})

\* .filter(BookDB.id == book_id).first(): Optional row
First(rows, book_id) ==
    IF \E r \in rows : r.id = book_id
    THEN Some(CHOOSE r \in rows : r.id = book_id)
    ELSE None

----------------------------------------------------------------------------
(* ilike: what BookDB.title.ilike(f"%{title}%") matches on SQLite *)

Upper == <<"A", "B", "C", "D", "E", "F", "G", "H", "I", "J", "K", "L", "M",
           "N", "O", "P", "Q", "R", "S", "T", "U", "V", "W", "X", "Y", "Z">>
LowerOf == <<"a", "b", "c", "d", "e", "f", "g", "h", "i", "j", "k", "l", "m",
             "n", "o", "p", "q", "r", "s", "t", "u", "v", "w", "x", "y", "z">>

\* SQL lower() of one character: the ASCII capitals fold, nothing else does
LowerChar(c) ==
    IF \E i \in 1..Len(Upper) : Upper[i] = c
    THEN LowerOf[CHOOSE i \in 1..Len(Upper) : Upper[i] = c]
    ELSE c

Lower(s) == [i \in 1..Len(s) |-> LowerChar(s[i])]

\* SQL `s LIKE pat` with no ESCAPE: % matches any run of characters, _ any one
RECURSIVE Like(_, _)
Like(s, pat) ==
    IF pat = <<>> THEN s = <<>>
    ELSE IF Head(pat) = "%"
         THEN Like(s, Tail(pat)) \/ (s # <<>> /\ Like(Tail(s), pat))
    ELSE IF Head(pat) = "_"
         THEN s # <<>> /\ Like(Tail(s), Tail(pat))
    ELSE s # <<>> /\ LowerChar(Head(s)) = LowerChar(Head(pat)) /\ Like(Tail(s), Tail(pat))

\* column.ilike(f"%{term}%"): lower(column) LIKE lower('%term%')
ILike(col, term) == Like(Lower(col), Lower(<<"%">> \o term \o <<"%">>))

\* `if title:` / `if author:`: None and "" add no filter
Truthy(o) == ~IsNone(o) /\ Val(o) # EmptyStr

\* the rows the filters of search_books keep
SearchFilter(rows, title, author, year) ==
    {r \in rows :
        /\ Truthy(title) => ILike(r.title, Val(title))
        /\ Truthy(author) => ILike(r.author, Val(author))
        /\ ~IsNone(year) => r.year = year}

----------------------------------------------------------------------------
(* The handlers as functions of the table: [status, rows, body] *)

SkipMin == 0
LimitMin == 1
LimitMax == 100

Result(status, rows, body) == [status |-> status, rows |-> rows, body |-> body]

\* create_book; `commits` is whether db.commit() went through
CreateBookResult(rows, b, commits) ==
    IF ~BookCreate(b) THEN Result(422, rows, <<>>)
    ELSE IF ~commits THEN Result(500, rows, <<>>)
    ELSE LET db_book == BookDB(NextRowid(rows), b)
         IN Result(201, rows \cup {db_book}, <<db_book>>)

\* a page that starts one row late
ReadBooksPageLate(all, skip, limit) == SubSeq(all, skip + 2, Min2(skip + 1 + limit, Len(all)))

\* .offset(skip).limit(limit) of the rows `all`
ReadBooksPage(all, skip, limit) == SubSeq(all, skip + 1, Min2(skip + limit, Len(all)))

\* read_books
ReadBooksResult(rows, skip, limit) ==
    IF skip < SkipMin \/ limit < LimitMin \/ limit > LimitMax
    THEN Result(422, rows, <<>>)
    ELSE Result(200, rows, ReadBooksPage(AllRows(rows), skip, limit))

\* read_book
ReadBookResult(rows, book_id) ==
    LET book == First(rows, book_id)
    IN IF IsNone(book) THEN Result(404, rows, <<>>)
       ELSE Result(200, rows, <<Val(book)>>)

\* an update that skips the fields whose new value is None
SetattrSkipNone(db_book, b) ==
    [id |-> db_book.id, title |-> b.title, author |-> b.author,
     year |-> IF IsNone(b.year) THEN db_book.year ELSE b.year]

\* for key, value in book_update.dict().items(): setattr(db_book, key, value)
Setattr(db_book, b) ==
    [id |-> db_book.id, title |-> b.title, author |-> b.author, year |-> b.year]

\* update_book
UpdateBookResult(rows, book_id, b, commits) ==
    IF ~BookCreate(b) THEN Result(422, rows, <<>>)
    ELSE LET db_book == First(rows, book_id)
         IN IF IsNone(db_book) THEN Result(404, rows, <<>>)
            ELSE IF ~commits THEN Result(500, rows, <<>>)
            ELSE LET new == Setattr(Val(db_book), b)
                 IN Result(200, (rows \ {Val(db_book)}) \cup {new}, <<new>>)

\* a delete that takes the rows after book_id with it
DeleteFrom(rows, book) == {r \in rows : r.id < book.id}

\* db.delete(book)
Delete(rows, book) == rows \ {book}

\* a delete that answers 204 for an id no row has
DeleteBookQuiet(rows, book_id, commits) ==
    LET book == First(rows, book_id)
    IN IF IsNone(book) THEN Result(204, rows, <<>>)
       ELSE IF ~commits THEN Result(500, rows, <<>>)
       ELSE Result(204, Delete(rows, Val(book)), <<>>)

\* delete_book
DeleteBookResult(rows, book_id, commits) ==
    LET book == First(rows, book_id)
    IN IF IsNone(book) THEN Result(404, rows, <<>>)
       ELSE IF ~commits THEN Result(500, rows, <<>>)
       ELSE Result(204, Delete(rows, Val(book)), <<>>)

\* search_books
SearchBooksResult(rows, title, author, year) ==
    IF ~YearInRange(year) THEN Result(422, rows, <<>>)
    ELSE Result(200, rows, AllRows(SearchFilter(rows, title, author, year)))

----------------------------------------------------------------------------
(* Requests *)

NoReq == [id |-> None, book |-> None, skip |-> None, limit |-> None,
          title |-> None, author |-> None, year |-> None]

Response(op, req, r) == [op |-> op, req |-> req, status |-> r.status, body |-> r.body]

NoResp == [op |-> "none", req |-> NoReq, status |-> 0, body |-> <<>>]

Skips == {-1, 0, 1, 2}
Limits == {0, 1, 2, 100, 101}
TitleQueries == {None, Some(EmptyStr), Some(Str2("w", "A")), Some(Str1("_"))}
AuthorQueries == {None, Some(Str1("X"))}
YearQueries == {None, Some(0), Some(2100), Some(2101)}

\* ids in insertion order once book_id is gone
RECURSIVE Without(_, _)
Without(s, x) ==
    IF s = <<>> THEN <<>>
    ELSE IF Head(s) = x THEN Without(Tail(s), x)
    ELSE <<Head(s)>> \o Without(Tail(s), x)

Init ==
    /\ books = {}
    /\ issued = {}
    /\ order = <<>>
    /\ pc = "idle"
    /\ session = "closed"
    /\ resp = NoResp
    /\ students = <<>>
    /\ out = <<>>
    /\ running = TRUE
    /\ choice = ""

\* GET /: no session is asked for
ReadRoot ==
    /\ pc = "idle"
    /\ resp' = [NoResp EXCEPT !.op = "root", !.status = 200]
    /\ UNCHANGED <<books, issued, order, pc, session, students, out, running, choice>>

\* get_db up to its yield: db = SessionLocal()
GetDb ==
    /\ pc = "idle"
    /\ session' = "open"
    /\ pc' = "yielded"
    /\ resp' = NoResp
    /\ UNCHANGED <<books, issued, order, students, out, running, choice>>

\* a get_db that closes the session only after a handler that returned
GetDbCloseOnReturn ==
    /\ pc = "exit"
    /\ session' = IF resp.status < 400 THEN "closed" ELSE session
    /\ pc' = "idle"
    /\ UNCHANGED <<books, issued, order, resp, students, out, running, choice>>

\* get_db after its yield: finally: db.close()
GetDbFinally ==
    /\ pc = "exit"
    /\ session' = "closed"
    /\ pc' = "idle"
    /\ UNCHANGED <<books, issued, order, resp, students, out, running, choice>>

CreateBook ==
    /\ pc = "yielded"
    /\ \E b \in Bodies, commits \in BOOLEAN :
        LET r == CreateBookResult(books, b, commits)
        IN /\ r.status = 201 => r.body[1].id <= MaxId
           /\ books' = r.rows
           /\ issued' = IF r.status = 201 THEN issued \cup {r.body[1].id} ELSE issued
           /\ order' = IF r.status = 201 THEN Append(order, r.body[1].id) ELSE order
           /\ resp' = Response("create", [NoReq EXCEPT !.book = Some(b)], r)
    /\ pc' = "exit"
    /\ UNCHANGED <<session, students, out, running, choice>>

ReadBooks ==
    /\ pc = "yielded"
    /\ \E skip \in Skips, limit \in Limits :
        LET r == ReadBooksResult(books, skip, limit)
        IN resp' = Response("list", [NoReq EXCEPT !.skip = Some(skip), !.limit = Some(limit)], r)
    /\ pc' = "exit"
    /\ UNCHANGED <<books, issued, order, session, students, out, running, choice>>

ReadBook ==
    /\ pc = "yielded"
    /\ \E book_id \in BookIds :
        LET r == ReadBookResult(books, book_id)
        IN resp' = Response("get", [NoReq EXCEPT !.id = Some(book_id)], r)
    /\ pc' = "exit"
    /\ UNCHANGED <<books, issued, order, session, students, out, running, choice>>

UpdateBook ==
    /\ pc = "yielded"
    /\ \E book_id \in BookIds, b \in Bodies, commits \in BOOLEAN :
        LET r == UpdateBookResult(books, book_id, b, commits)
        IN /\ books' = r.rows
           /\ resp' = Response("update", [NoReq EXCEPT !.id = Some(book_id), !.book = Some(b)], r)
    /\ pc' = "exit"
    /\ UNCHANGED <<issued, order, session, students, out, running, choice>>

DeleteBook ==
    /\ pc = "yielded"
    /\ \E book_id \in BookIds, commits \in BOOLEAN :
        LET r == DeleteBookResult(books, book_id, commits)
        IN /\ books' = r.rows
           /\ order' = IF r.status = 204 THEN Without(order, book_id) ELSE order
           /\ resp' = Response("delete", [NoReq EXCEPT !.id = Some(book_id)], r)
    /\ pc' = "exit"
    /\ UNCHANGED <<issued, session, students, out, running, choice>>

SearchBooks ==
    /\ pc = "yielded"
    /\ \E title \in TitleQueries, author \in AuthorQueries, year \in YearQueries :
        LET r == SearchBooksResult(books, title, author, year)
        IN resp' = Response("search",
                            [NoReq EXCEPT !.title = title, !.author = author, !.year = year], r)
    /\ pc' = "exit"
    /\ UNCHANGED <<books, issued, order, session, students, out, running, choice>>

Next ==
    \/ ReadRoot
    \/ GetDb
    \/ CreateBook
    \/ ReadBooks
    \/ ReadBook
    \/ UpdateBook
    \/ DeleteBook
    \/ SearchBooks
    \/ GetDbFinally

----------------------------------------------------------------------------
(* grade.py: the student grade tracker *)

\* the names typed at "Enter student name"
Names == {"ann", "Ann"}

\* the lines typed at "Enter a grade" that are not 'done'
GradeLines == { Str2("5", "0"), <<"1", "0", "0">>, <<"1", "0", "1">>, <<"a", "b", "c">> }

\* the lines that end the grade prompt
DoneLines == { <<"d", "o", "n", "e">>, <<"D", "o", "n", "e">> }

Digits == <<"0", "1", "2", "3", "4", "5", "6", "7", "8", "9">>
IsDigit(c) == \E i \in 1..Len(Digits) : Digits[i] = c
DigitVal(c) == (CHOOSE i \in 1..Len(Digits) : Digits[i] = c) - 1

RECURSIVE Decimal(_)
Decimal(s) == IF s = <<>> THEN 0 ELSE 10 * Decimal(SubSeq(s, 1, Len(s) - 1)) + DigitVal(s[Len(s)])

AllDigits(s) == s # <<>> /\ \A i \in 1..Len(s) : IsDigit(s[i])

\* float(grade_input) on a signed run of digits; None where it raises ValueError
Float(line) ==
    IF AllDigits(line) THEN Some(Decimal(line))
    ELSE IF line # <<>> /\ Head(line) = "-" /\ AllDigits(Tail(line)) THEN Some(0 - Decimal(Tail(line)))
    ELSE None

GradeMin == 0
GradeMax == 100

Line(msg, name, val) == [msg |-> msg, name |-> name, val |-> val]

\* the while loop of choice 2 over the lines typed: [grades, out]
RECURSIVE GradeLoop(_, _, _)
GradeLoop(grades, typed, printed) ==
    IF typed = <<>> \/ Lower(Head(typed)) = <<"d", "o", "n", "e">>
    THEN [grades |-> grades, out |-> printed]
    ELSE LET grade == Float(Head(typed))
         IN IF IsNone(grade)
            THEN GradeLoop(grades, Tail(typed),
                           Append(printed, Line("Invalid input. Please enter a number.", "", None)))
            ELSE IF GradeMin <= Val(grade) /\ Val(grade) <= GradeMax
            THEN GradeLoop(Append(grades, Val(grade)), Tail(typed), printed)
            ELSE GradeLoop(grades, Tail(typed),
                           Append(printed, Line("Grade must be between 0 and 100", "", None)))

\* any(s["name"] == name for s in students)
Exists(list, name) == \E i \in 1..Len(list) : list[i].name = name

\* a choice 1 that appends without looking for the name
AddStudentUnchecked(list, new_name) == Append(list, [name |-> new_name, grades |-> <<>>])

\* choice 1: the list after "Enter student name:"
AddStudent(list, new_name) ==
    IF Exists(list, new_name) THEN list
    ELSE Append(list, [name |-> new_name, grades |-> <<>>])

RECURSIVE Sum(_)
Sum(s) == IF s = <<>> THEN 0 ELSE Head(s) + Sum(Tail(s))

\* fractions <<numerator, denominator>>, denominator > 0
Frac(n, d) == <<n, d>>
FracLess(a, b) == a[1] * b[2] < b[1] * a[2]
FracAdd(a, b) == <<a[1] * b[2] + b[1] * a[2], a[2] * b[2]>>
FracDiv(a, k) == <<a[1], a[2] * k>>

\* sum(grades) / len(grades)
Average(grades) == Frac(Sum(grades), Len(grades))

\* f"{x:.1f}": x in tenths, to the nearest tenth, a tie to the even one
Fmt1(x) ==
    LET n == 10 * x[1]
        q == n \div x[2]
        r2 == 2 * (n % x[2])
    IN IF r2 < x[2] THEN q
       ELSE IF r2 > x[2] THEN q + 1
       ELSE IF q % 2 = 0 THEN q ELSE q + 1

\* the averages of the students that have grades, in list order
RECURSIVE Averages(_)
Averages(list) ==
    IF list = <<>> THEN <<>>
    ELSE IF Head(list).grades = <<>> THEN Averages(Tail(list))
    ELSE <<Average(Head(list).grades)>> \o Averages(Tail(list))

RECURSIVE FracSum(_)
FracSum(s) == IF s = <<>> THEN Frac(0, 1) ELSE FracAdd(Head(s), FracSum(Tail(s)))

FracMax(s) == s[CHOOSE i \in 1..Len(s) : \A j \in 1..Len(s) : ~FracLess(s[i], s[j])]
FracMin(s) == s[CHOOSE i \in 1..Len(s) : \A j \in 1..Len(s) : ~FracLess(s[j], s[i])]

\* choice 3: the lines of the report
Report(list) ==
    IF list = <<>>
    THEN <<Line("Student report", "", None), Line("No students added", "", None)>>
    ELSE LET averages == Averages(list)
             each == [i \in 1..Len(list) |->
                        IF list[i].grades = <<>>
                        THEN Line("average grade is N/A", list[i].name, None)
                        ELSE Line("average grade is", list[i].name,
                                  Some(Fmt1(Average(list[i].grades))))]
         IN <<Line("Student report", "", None)>> \o each \o
            (IF averages = <<>> THEN <<>>
             ELSE <<Line("Max Average", "", Some(Fmt1(FracMax(averages)))),
                    Line("Min Average", "", Some(Fmt1(FracMin(averages)))),
                    Line("Overall Average", "",
                         Some(Fmt1(FracDiv(FracSum(averages), Len(averages)))))>>)

\* choice 4: the lines of the top performer; max() keeps the first of equal averages
TopPerformer(list) ==
    IF list = <<>> THEN <<Line("No students added", "", None)>>
    ELSE LET with == {i \in 1..Len(list) : list[i].grades # <<>>}
         IN IF with = {} THEN <<Line("No students with grades", "", None)>>
            ELSE LET top == CHOOSE i \in with :
                                /\ \A j \in with :
                                     ~FracLess(Average(list[i].grades), Average(list[j].grades))
                                /\ \A j \in with :
                                     j < i => FracLess(Average(list[j].grades),
                                                       Average(list[i].grades))
                 IN <<Line("The student with the highest average is", list[top].name,
                           Some(Fmt1(Average(list[top].grades))))>>

\* the lines typed at the grade prompt: at most MaxInputs of them, then a 'done'
RECURSIVE Typed(_)
Typed(n) ==
    IF n = 0 THEN {<<>>}
    ELSE Typed(n - 1) \cup {Append(t, l) : t \in {u \in Typed(n - 1) : Len(u) = n - 1}, l \in GradeLines}

TypedLines == Typed(MaxInputs)

Choice1 ==
    /\ running
    /\ choice' = "1"
    /\ \E new_name \in Names :
        /\ students' = AddStudent(students, new_name)
        /\ out' = IF Exists(students, new_name)
                  THEN <<Line("This student is alredy exists", "", None)>>
                  ELSE <<>>
    /\ UNCHANGED <<bookVars, running>>

Choice2 ==
    /\ running
    /\ choice' = "2"
    /\ \E name \in Names, lines \in TypedLines, done \in DoneLines :
        IF Exists(students, name)
        THEN \E i \in {k \in 1..Len(students) :
                          /\ students[k].name = name
                          /\ \A j \in 1..(k - 1) : students[j].name # name} :
               \E r \in {GradeLoop(students[i].grades, Append(lines, done), <<>>)} :
                /\ Len(r.grades) <= MaxGrades
                /\ students' = [students EXCEPT ![i].grades = r.grades]
                /\ out' = r.out
        ELSE /\ students' = students
             /\ out' = <<Line("There is no such student", "", None)>>
    /\ UNCHANGED <<bookVars, running>>

Choice3 ==
    /\ running
    /\ choice' = "3"
    /\ out' = Report(students)
    /\ UNCHANGED <<bookVars, students, running>>

Choice4 ==
    /\ running
    /\ choice' = "4"
    /\ out' = TopPerformer(students)
    /\ UNCHANGED <<bookVars, students, running>>

Choice5 ==
    /\ running
    /\ choice' = "5"
    /\ out' = <<Line("Exiting program", "", None)>>
    /\ running' = FALSE
    /\ UNCHANGED <<bookVars, students>>

\* any other line at "Enter your choice": no branch runs
ChoiceOther ==
    /\ running
    /\ choice' = "6"
    /\ out' = <<>>
    /\ UNCHANGED <<bookVars, students, running>>

NextGrade ==
    \/ Choice1
    \/ Choice2
    \/ Choice3
    \/ Choice4
    \/ Choice5
    \/ ChoiceOther

Spec == Init /\ [][Next]_vars

SpecGrade == Init /\ [][NextGrade]_vars

----------------------------------------------------------------------------
(* The claims *)

\* the step in which handler `op` runs
Handles(op) == pc = "yielded" /\ resp'.op = op

\* text occurs in field as a substring, letter case aside
OccursIn(text, field) ==
    \E i \in 1..(Len(field) - Len(text) + 1) :
        Lower(SubSeq(field, i, i + Len(text) - 1)) = Lower(text)

\* a body the specification rejects: empty title, empty author, or a year outside [0, 2100]
Rejected(b) ==
    \/ b.title = <<>>
    \/ b.author = <<>>
    \/ (b.year # <<>> /\ (b.year[1] < 0 \/ b.year[1] > 2100))

\* the stored rows in the order they were inserted
Inserted == [i \in 1..Len(order) |-> CHOOSE r \in books : r.id = order[i]]

\* C1: every successful create returns a record whose id differs from the id of
\* every record created earlier, the deleted ones included.
C1_CreateIdNeverIssued ==
    [][(Handles("create") /\ resp'.status = 201) => resp'.body[1].id \notin issued]_vars

\* C2: search returns exactly the stored records that satisfy every provided
\* criterion: title and author as case-insensitive substrings, year by equality,
\* an omitted criterion constraining nothing.
C2_SearchExact ==
    (resp.op = "search" /\ resp.status = 200) =>
        Range(resp.body) =
            {r \in books :
                /\ resp.req.title # None => OccursIn(resp.req.title[1], r.title)
                /\ resp.req.author # None => OccursIn(resp.req.author[1], r.author)
                /\ resp.req.year # None => r.year = resp.req.year}

\* C3: after a successful update(id, b2), get(id) returns a record with the same id
\* and the title, author and year of b2 (an omitted year absent), and every other
\* stored record is as it was before the update.
C3_UpdateThenGet ==
    [][(Handles("update") /\ resp'.status = 200) =>
        LET id == resp'.req.id[1]
            b2 == resp'.req.book[1]
            got == ReadBookResult(books', id)
        IN /\ got.status = 200
           /\ got.body = <<[id |-> id, title |-> b2.title, author |-> b2.author, year |-> b2.year]>>
           /\ {r \in books' : r.id # id} = {r \in books : r.id # id}
           /\ Ids(books') = Ids(books)]_vars

C3_Witness ==
    /\ pc = "exit" /\ resp.op = "update" /\ resp.status = 200
    /\ resp.req.book[1].year = None
    /\ Cardinality(books) >= 2

\* C4: a delete(id) of an existing id that returns makes get(id) NotFound, and every
\* other stored record is still returned unchanged by get.
C4_DeleteThenGet ==
    [][(Handles("delete") /\ resp'.status = 204) =>
        LET id == resp'.req.id[1]
        IN /\ id \in Ids(books)
           /\ ReadBookResult(books', id).status = 404
           /\ \A r \in books : r.id # id =>
                /\ ReadBookResult(books', r.id).status = 200
                /\ ReadBookResult(books', r.id).body = <<r>>
           /\ Ids(books') = Ids(books) \ {id}]_vars

C4_Witness ==
    /\ pc = "exit" /\ resp.op = "delete" /\ resp.status = 204
    /\ \E r \in books : r.id > resp.req.id[1]
    /\ \E r \in books : r.id < resp.req.id[1]

\* C5: list(skip, limit) with skip >= 0 and 1 <= limit <= 100 returns the stored
\* records in insertion order, positions skip .. skip+limit-1 of that order; with
\* skip 0 and limit 1 on three records, exactly the first-inserted one.
C5_ListPage ==
    (resp.op = "list" /\ resp.req.skip[1] >= 0
        /\ resp.req.limit[1] >= 1 /\ resp.req.limit[1] <= 100) =>
        LET skip == resp.req.skip[1]
            limit == resp.req.limit[1]
            n == IF Len(order) - skip < 0 THEN 0
                 ELSE IF Len(order) - skip < limit THEN Len(order) - skip ELSE limit
        IN /\ resp.status = 200
           /\ Len(order) = Cardinality(books)
           /\ resp.body = [k \in 1..n |-> Inserted[skip + k]]
           /\ (skip = 0 /\ limit = 1 /\ Cardinality(books) = 3) => resp.body = <<Inserted[1]>>

C5_Witness ==
    /\ resp.op = "list" /\ resp.status = 200
    /\ resp.req.skip[1] = 0 /\ resp.req.limit[1] = 1
    /\ Cardinality(books) = 3
    /\ resp.body = <<Inserted[1]>>
    /\ order[1] # 1

\* C6: a create whose title is empty, whose author is empty, or whose year is outside
\* [0, 2100] fails with ValidationError and leaves the stored records as they were.
C6_InvalidCreateRejected ==
    [][(Handles("create") /\ Rejected(resp'.req.book[1])) =>
        (resp'.status = 422 /\ books' = books)]_vars

C6_Witness ==
    /\ pc = "exit" /\ resp.op = "create" /\ resp.status = 422
    /\ resp.req.book[1].title = <<>>
    /\ books # {}

\* C7 as stated: get, update and delete with an id no stored record has each yield
\* NotFound and leave the stored records as they were.
C7_AbsentIdNotFound ==
    [][(/\ pc = "yielded"
        /\ resp'.op \in {"get", "update", "delete"}
        /\ resp'.req.id[1] \notin Ids(books)) =>
        (resp'.status = 404 /\ books' = books)]_vars

\* C7 as amended: get and delete with an id no stored record has, and update with
\* such an id and a body that passes validation, each yield NotFound; an update
\* with such an id and a rejected body yields ValidationError; in every one of
\* these cases the stored records are as they were.
C7_AbsentIdNotFoundValidBody ==
    [][(/\ pc = "yielded"
        /\ resp'.op \in {"get", "update", "delete"}
        /\ resp'.req.id[1] \notin Ids(books)) =>
        /\ books' = books
        /\ resp'.status =
             IF resp'.op = "update" /\ Rejected(resp'.req.book[1]) THEN 422 ELSE 404]_vars

C7_Witness ==
    /\ pc = "exit" /\ resp.op = "delete" /\ resp.status = 404
    /\ resp.req.id[1] \notin Ids(books)
    /\ books # {}

\* C8: no request ends with its session still open, whether its handler returned,
\* raised NotFound, or failed in commit.
C8_SessionReleased ==
    /\ pc = "idle" => session = "closed"
    /\ pc \in {"yielded", "exit"} => session = "open"

C8_Witness ==
    /\ pc = "idle" /\ session = "closed"
    /\ resp.op = "update" /\ resp.status = 500

\* C9: every stored record has a non-empty title, a non-empty author, and a year
\* that is absent or within [0, 2100].
C9_StoredRecordsValid ==
    \A r \in books :
        /\ r.title # <<>>
        /\ r.author # <<>>
        /\ (r.year = <<>> \/ (r.year[1] >= 0 /\ r.year[1] <= 2100))

C9_Witness ==
    /\ pc = "exit" /\ resp.op = "update" /\ resp.status = 422
    /\ resp.req.id[1] \in Ids(books)
    /\ resp.req.book[1].year = <<2101>>
    /\ Cardinality(books) >= 2

NameSeq(list) == [i \in 1..Len(list) |-> list[i].name]

AlreadyExists == <<Line("This student is alredy exists", "", None)>>

\* C10: no two entries of students have the same name; choice 1 with a name already
\* present leaves the list unchanged, and choices 2, 3 and 4 neither add nor remove
\* a student.
C10_UniqueNames ==
    /\ [](\A i, j \in 1..Len(students) : students[i].name = students[j].name => i = j)
    /\ [][/\ (choice' = "1" /\ out' = AlreadyExists) => students' = students
          /\ choice' = "1" =>
                \E n \in Names :
                    students' = IF \E i \in 1..Len(students) : students[i].name = n
                                THEN students
                                ELSE Append(students, [name |-> n, grades |-> <<>>])
          /\ (running /\ choice' \in {"2", "3", "4"}) => NameSeq(students') = NameSeq(students)]_vars

C10_Witness ==
    /\ choice = "1" /\ out = AlreadyExists
    /\ Len(students) = 2
    /\ \E i \in 1..2 : students[i].grades # <<>>

====
